---------------------------- MODULE Spec2Model ----------------------------
(***************************************************************************)
(* A model of the loyalty backend's correlation core:                      *)
(*   - ReceiptParser     (backend/app/utils/receipt_parser.py)             *)
(*   - WebSocketManager  (backend/app/services/websocket_manager.py)       *)
(*   - ReceiptMonitor    (backend/app/services/receipt_monitor.py)         *)
(*                                                                         *)
(* Receipt texts and file paths are sequences of one-character strings,    *)
(* so the parser's regular expressions and substring tests are computed    *)
(* character by character.  Amounts are whole cents: the patterns only     *)
(* accept numbers with exactly two decimals.  Time is whole seconds.       *)
(*                                                                         *)
(* Coroutines are interleaved at their asyncio.sleep calls (the debounce   *)
(* of _process_file, the confirmation delay of                             *)
(* _handle_customer_registration) and at asyncio.create_task; a send to a  *)
(* peer completes inside the step that makes it and either succeeds or     *)
(* raises, which empties the slot.  asyncio.sleep only guarantees a lower  *)
(* bound, so a sleeping coroutine may resume at any later step.            *)
(***************************************************************************)
EXTENDS Integers, Sequences, FiniteSets, TLC

(***************************************************************************)
(* Bounds of the model.                                                    *)
(***************************************************************************)
\* the clock shows second 0 and the seconds from the matching window up to
\* MaxClock
MaxClock == 31
\* coroutines of _process_file suspended in the debounce at the same time
MaxTasks == 2
\* tasks created by add_test_receipt that have not run yet
MaxInject == 1
\* the housekeeping pass trims a processed-set of more than TrimAbove paths
\* to TrimKeep of them: the 1000 and 500 of _process_pending_receipts,
\* scaled to the paths of the model
TrimAbove == 1
TrimKeep == 1

(***************************************************************************)
(* Program constants.                                                      *)
(***************************************************************************)
receipt_match_window_seconds == 30

(***************************************************************************)
(* Characters and strings.                                                 *)
(***************************************************************************)
Min(S) == CHOOSE x \in S : \A y \in S : x <= y

Upper == <<"A","B","C","D","E","F","G","H","I","J","K","L","M",
           "N","O","P","Q","R","S","T","U","V","W","X","Y","Z">>

LowerCase == <<"a","b","c","d","e","f","g","h","i","j","k","l","m",
               "n","o","p","q","r","s","t","u","v","w","x","y","z">>

DigitChars == <<"0","1","2","3","4","5","6","7","8","9">>

\* str.lower() on one character
LowerChar(c) ==
    IF \E k \in 1..26 : Upper[k] = c
    THEN LowerCase[CHOOSE k \in 1..26 : Upper[k] = c]
    ELSE c

\* str.lower()
lower(s) == [i \in 1..Len(s) |-> LowerChar(s[i])]

\* the regular expression class \s
IsSpace(c) == c \in {" ", "\t", "\n", "\r", "\f"}

\* the regular expression class \d
IsDigit(c) == \E k \in 1..10 : DigitChars[k] = c

DigitVal(c) == (CHOOSE k \in 1..10 : DigitChars[k] = c) - 1

\* w occurs in s at position i
StartsAt(s, i, w) ==
    /\ i >= 1
    /\ i + Len(w) - 1 <= Len(s)
    /\ \A k \in 1..Len(w) : s[i + k - 1] = w[k]

\* the Python test `w in s`
Contains(s, w) == \E i \in 1..(Len(s) + 1) : StartsAt(s, i, w)

\* str.endswith
EndsWith(s, w) == StartsAt(s, Len(s) - Len(w) + 1, w)

\* len(s.strip())
StripLen(s) ==
    LET solid == {i \in 1..Len(s) : ~IsSpace(s[i])}
    IN  IF solid = {} THEN 0
        ELSE (CHOOSE i \in solid : \A j \in solid : j <= i) - Min(solid) + 1

\* the first position from i on that does not hold a character of the class
SkipWhile(s, i, InClass(_)) ==
    Min({j \in i..(Len(s) + 1) : j = Len(s) + 1 \/ ~InClass(s[j])})

\* the position after an optional character c at i
SkipOpt(s, i, c) == IF i <= Len(s) /\ s[i] = c THEN i + 1 ELSE i

RECURSIVE NumVal(_, _, _)
\* the decimal number written in s[i..j-1]
NumVal(s, i, j) ==
    IF j <= i THEN 0 ELSE NumVal(s, i, j - 1) * 10 + DigitVal(s[j - 1])

\* (\d+\.\d{2}) matched at position i: the amount in cents, or -1
AmountAt(s, i) ==
    LET j == SkipWhile(s, i, IsDigit)
    IN  IF /\ j > i
           /\ j + 2 <= Len(s)
           /\ s[j] = "."
           /\ IsDigit(s[j + 1])
           /\ IsDigit(s[j + 2])
        THEN NumVal(s, i, j) * 100 + DigitVal(s[j + 1]) * 10 + DigitVal(s[j + 2])
        ELSE -1

(***************************************************************************)
(* ReceiptParser.                                                          *)
(***************************************************************************)
\* the labels of TOTAL_PATTERNS, lower-cased: each pattern is
\* <label>\s*:?\s*\$?(\d+\.\d{2}) and is searched with re.IGNORECASE
TOTAL_PATTERNS == <<
    <<"t","o","t","a","l">>,
    <<"t","o","t","a","l">>,
    <<"a","m","o","u","n","t">>,
    <<"g","r","a","n","d"," ","t","o","t","a","l">> >>

\* one TOTAL_PATTERNS pattern matched at position i: the amount, or -1
TotalPatternAt(s, i, label) ==
    IF StartsAt(lower(s), i, label)
    THEN AmountAt(s,
            SkipOpt(s,
               SkipWhile(s,
                  SkipOpt(s, SkipWhile(s, i + Len(label), IsSpace), ":"),
                  IsSpace),
               "$"))
    ELSE -1

\* re.search: the leftmost match of the pattern, its amount, or -1
SearchTotal(s, label) ==
    LET hits == {i \in 1..Len(s) : TotalPatternAt(s, i, label) >= 0}
    IN  IF hits = {} THEN -1 ELSE TotalPatternAt(s, Min(hits), label)

\* _extract_total: the first pattern that matches decides; 0 without a match
extract_total(s) ==
    LET found == {k \in 1..Len(TOTAL_PATTERNS) :
                     SearchTotal(s, TOTAL_PATTERNS[k]) >= 0}
    IN  IF found = {} THEN 0 ELSE SearchTotal(s, TOTAL_PATTERNS[Min(found)])

receipt_indicators == {
    <<"t","o","t","a","l">>,
    <<"r","e","c","e","i","p","t">>,
    <<"t","h","a","n","k"," ","y","o","u">>,
    <<"t","r","a","n","s","a","c","t","i","o","n">>,
    <<"s","u","b","t","o","t","a","l">>,
    <<"t","a","x">>,
    <<"c","h","a","n","g","e">>,
    <<"p","a","y","m","e","n","t">> }

indicators_found(s) ==
    Cardinality({w \in receipt_indicators : Contains(lower(s), w)})

\* the validity test with the length of the text as it came
is_valid_receipt_untrimmed(s) ==
    IF Len(s) < 20
    THEN FALSE
    ELSE indicators_found(s) >= 2 /\ extract_total(s) > 0

\* is_valid_receipt
is_valid_receipt(s) ==
    IF Len(s) = 0 \/ StripLen(s) < 20
    THEN FALSE
    ELSE indicators_found(s) >= 2 /\ extract_total(s) > 0

\* the regular expression class \w
IsWord(c) ==
    \/ IsDigit(c)
    \/ c = "_"
    \/ \E k \in 1..26 : c = Upper[k] \/ c = LowerCase[k]

\* the class [A-Z0-9] under re.IGNORECASE
IsAlnum(c) == IsWord(c) /\ c # "_"

\* str.strip()
Strip(s) ==
    LET solid == {i \in 1..Len(s) : ~IsSpace(s[i])}
    IN  IF solid = {} THEN <<>>
        ELSE SubSeq(s, Min(solid),
                    CHOOSE i \in solid : \A j \in solid : j <= i)

RECURSIVE Split(_)
\* text.split('\n')
Split(s) ==
    LET breaks == {i \in 1..Len(s) : s[i] = "\n"}
    IN  IF breaks = {} THEN <<s>>
        ELSE <<SubSeq(s, 1, Min(breaks) - 1)>>
                 \o Split(SubSeq(s, Min(breaks) + 1, Len(s)))

\* the labels of RECEIPT_ID_PATTERNS, lower-cased: each pattern is
\* <label>\s*#?\s*:?\s*([A-Z0-9]+) and is searched with re.IGNORECASE
RECEIPT_ID_PATTERNS == <<
    <<"r","e","c","e","i","p","t">>,
    <<"t","r","a","n","s","a","c","t","i","o","n">>,
    <<"r","e","f">>,
    <<"i","n","v","o","i","c","e">> >>

\* where the group ([A-Z0-9]+) of a RECEIPT_ID_PATTERNS pattern begins when
\* the pattern is tried at position i
IdGroupAt(s, i, label) ==
    SkipWhile(s,
       SkipOpt(s,
          SkipWhile(s,
             SkipOpt(s, SkipWhile(s, i + Len(label), IsSpace), "#"),
             IsSpace),
          ":"),
       IsSpace)

\* one RECEIPT_ID_PATTERNS pattern matched at position i: the identifier,
\* or <<>> without a match
IdPatternAt(s, i, label) ==
    IF StartsAt(lower(s), i, label)
    THEN LET g == IdGroupAt(s, i, label)
         IN  SubSeq(s, g, SkipWhile(s, g, IsAlnum) - 1)
    ELSE <<>>

\* re.search: the identifier of the leftmost match, or <<>>
SearchId(s, label) ==
    LET hits == {i \in 1..Len(s) : IdPatternAt(s, i, label) # <<>>}
    IN  IF hits = {} THEN <<>> ELSE IdPatternAt(s, Min(hits), label)

\* _extract_receipt_id: the first pattern that matches decides; <<>> stands
\* for None
extract_receipt_id(s) ==
    LET found == {k \in 1..Len(RECEIPT_ID_PATTERNS) :
                     SearchId(s, RECEIPT_ID_PATTERNS[k]) # <<>>}
    IN  IF found = {} THEN <<>>
        ELSE SearchId(s, RECEIPT_ID_PATTERNS[Min(found)])

\* item_patterns: (\w+.*?)\s+(\d+\.\d{2}) and (\w+.*?)\s+\$(\d+\.\d{2}),
\* each given by what stands between the white space and the price
item_patterns == << <<>>, <<"$">> >>

\* \s+<sign>(\d+\.\d{2}) matched at position e: the price in cents, or -1
PriceAt(line, e, sign) ==
    IF e <= Len(line) /\ IsSpace(line[e])
    THEN LET j == SkipWhile(line, e, IsSpace)
         IN  IF StartsAt(line, j, sign)
             THEN AmountAt(line, j + Len(sign))
             ELSE -1
    ELSE -1

\* where the name (\w+.*?) that begins at i can end (exclusive): \w+ takes
\* the whole run of word characters and .*? grows one character at a time
NameEnds(line, i, sign) ==
    {e \in SkipWhile(line, i, IsWord)..Len(line) :
        PriceAt(line, e, sign) >= 0}

NoItem == [name |-> <<>>, price |-> -1]

\* re.search(pattern, line): the leftmost start, then the shortest name
SearchItem(line, sign) ==
    LET starts == {i \in 1..Len(line) :
                      IsWord(line[i]) /\ NameEnds(line, i, sign) # {}}
    IN  IF starts = {} THEN NoItem
        ELSE LET i == Min(starts)
                 e == Min(NameEnds(line, i, sign))
             IN  [name  |-> Strip(SubSeq(line, i, e - 1)),
                  price |-> PriceAt(line, e, sign)]

summary_keywords == {
    <<"t","o","t","a","l">>,
    <<"s","u","b","t","o","t","a","l">>,
    <<"t","a","x">>,
    <<"c","h","a","n","g","e">> }

\* a test that takes no name for a summary line
looks_like_total_never(item_name) == FALSE

\* "Skip if it looks like a total line"
looks_like_total(item_name) ==
    \E keyword \in summary_keywords : Contains(lower(item_name), keyword)

\* the patterns, in order, whose match on the line is appended
ItemPatternsTaken(line) ==
    {k \in 1..Len(item_patterns) :
        /\ SearchItem(line, item_patterns[k]) # NoItem
        /\ ~looks_like_total(SearchItem(line, item_patterns[k]).name)}

\* the items one line of the text adds: none, or one
line_items(raw_line) ==
    LET line == Strip(raw_line)
    IN  IF Len(line) < 5 \/ ItemPatternsTaken(line) = {} THEN <<>>
        ELSE LET m == SearchItem(line,
                          item_patterns[Min(ItemPatternsTaken(line))])
             IN  << [name |-> m.name, price |-> m.price, line |-> line] >>

RECURSIVE ItemsOf(_)
ItemsOf(lines) ==
    IF lines = <<>> THEN <<>>
    ELSE line_items(Head(lines)) \o ItemsOf(Tail(lines))

\* _extract_items
extract_items(s) == ItemsOf(Split(s))

\* an argument of the parser: a str with its characters, or something that
\* is no str (None)
Str(chars) == [is_str |-> TRUE, chars |-> chars]

NotStr == [is_str |-> FALSE, chars |-> <<>>]

\* the record of the except branch with no error key
parse_failed_silent(receipt_text) ==
    [raw_text |-> receipt_text, total |-> 0, receipt_id |-> <<>>,
     items |-> <<>>, items_count |-> 0, error |-> ""]

\* the except branch of parse_receipt: items and items_count are not
\* keys of this record (here empty and 0), error is str(e)
parse_failed(receipt_text) ==
    [raw_text |-> receipt_text, total |-> 0, receipt_id |-> <<>>,
     items |-> <<>>, items_count |-> 0, error |-> "TypeError"]

\* parse_receipt with its whole record: re.search raises TypeError on an
\* argument that is no str, and nothing else in the try block raises; a
\* record without the error key has error ""
parse_record(receipt_text) ==
    IF ~receipt_text.is_str THEN parse_failed(receipt_text)
    ELSE LET items == extract_items(receipt_text.chars)
         IN  [raw_text    |-> receipt_text,
              total       |-> extract_total(receipt_text.chars),
              receipt_id  |-> extract_receipt_id(receipt_text.chars),
              items       |-> items,
              items_count |-> IF items # <<>> THEN Len(items) ELSE 0,
              error       |-> ""]

\* is_valid_receipt on any argument: `not receipt_text` answers for None
is_valid(receipt_text) ==
    receipt_text.is_str /\ is_valid_receipt(receipt_text.chars)

(***************************************************************************)
(* Purchase: loyalty points.  amount_dollars is a Python float, an IEEE    *)
(* binary64 number, kept here as its 53 significand bits (first bit 1,     *)
(* most significant first) and the power of two that scales them.          *)
(***************************************************************************)
Precision == 53

\* fraction bits of a quotient that are worked out before rounding: enough
\* for Precision bits after the leading zeros of an amount under a dollar
FractionBits == 64

Zero == [bits |-> <<>>, exp |-> 0]

\* the binary digits of a natural number under 2^30, none for 0
BitsOf(n) ==
    LET len == Min({k \in 0..30 : 2^k > n})
    IN  [i \in 1..len |-> (n \div 2^(len - i)) % 2]

\* the natural number with these binary digits
ValueOf(bits) ==
    LET v[n \in 0..Len(bits)] ==
            IF n = 0 THEN 0 ELSE 2 * v[n - 1] + bits[n]
    IN  v[Len(bits)]

\* the first k binary digits of rem / den after the point, followed by 1 if
\* the quotient goes on after them and by 0 if it ends there
FractionOf(rem, den, k) ==
    LET r[j \in 0..k] == IF j = 0 THEN rem ELSE (2 * r[j - 1]) % den
    IN  [j \in 1..(k + 1) |->
            IF j <= k THEN (2 * r[j - 1]) \div den
            ELSE IF r[k] = 0 THEN 0 ELSE 1]

\* binary digits plus one, of the same length (all ones wrap to zeros)
Increment(bits) ==
    LET zeros == {i \in 1..Len(bits) : bits[i] = 0}
        z     == IF zeros = {} THEN 0
                 ELSE CHOOSE i \in zeros : \A j \in zeros : j <= i
    IN  [i \in 1..Len(bits) |->
            IF i < z THEN bits[i] ELSE IF i = z THEN 1 ELSE 0]

\* round to nearest, ties to even: digits (first digit 1) that stand for
\* ValueOf(digits) * 2^exp, the last digit telling only whether anything
\* follows, become a float
RoundToFloat(digits, exp) ==
    IF Len(digits) <= Precision + 1
    THEN [bits |-> SubSeq(digits, 1, Len(digits) - 1)
                       \o [i \in 1..(Precision + 1 - Len(digits)) |-> 0],
          exp  |-> exp + 1 - (Precision + 1 - Len(digits))]
    ELSE LET kept   == SubSeq(digits, 1, Precision)
             guard  == digits[Precision + 1]
             sticky == \E i \in (Precision + 2)..Len(digits) : digits[i] = 1
             e      == exp + Len(digits) - Precision
             up     == guard = 1 /\ (sticky \/ kept[Precision] = 1)
         IN  IF ~up THEN [bits |-> kept, exp |-> e]
             ELSE IF \A i \in 1..Precision : kept[i] = 1
                  THEN [bits |-> <<1>> \o [i \in 1..(Precision - 1) |-> 0],
                        exp  |-> e + 1]
                  ELSE [bits |-> Increment(kept), exp |-> e]

\* digits without their leading zeros
Significant(digits) ==
    SubSeq(digits, Min({i \in 1..Len(digits) : digits[i] = 1}), Len(digits))

\* the float nearest to n / den (int / float division)
FloatQuotient(n, den) ==
    IF n = 0 THEN Zero
    ELSE RoundToFloat(
            Significant(BitsOf(n \div den)
                            \o FractionOf(n % den, den, FractionBits)),
            0 - FractionBits - 1)

\* the binary digits of ValueOf(bits) * k + carry
TimesSmall(bits, k, carry) ==
    LET n == Len(bits)
        c[i \in 0..n] ==
            IF i = n THEN carry ELSE (bits[i + 1] * k + c[i + 1]) \div 2
    IN  BitsOf(c[0]) \o [i \in 1..n |-> (bits[i] * k + c[i]) % 2]

\* the float nearest to x * k (float * int)
FloatTimes(x, k) ==
    IF x = Zero \/ k = 0 THEN Zero
    ELSE RoundToFloat(TimesSmall(x.bits, k, 0) \o <<0>>, x.exp - 1)

\* int(x): the float cut off at the point
Truncate(x) ==
    IF x = Zero \/ Precision + x.exp <= 0 THEN 0
    ELSE ValueOf(SubSeq(x.bits, 1, Precision + x.exp))

\* Purchase.amount_dollars
amount_dollars(cents) == FloatQuotient(cents, 100)

\* the bonus for larger purchases: the tests amount_dollars >= 500, 250
\* and 100 hold exactly when the float cut off at the point reaches them
bonus_points(dollars) ==
    IF Truncate(dollars) >= 500 THEN 50
    ELSE IF Truncate(dollars) >= 250 THEN 25
    ELSE IF Truncate(dollars) >= 100 THEN 10
    ELSE 0

\* int(self.amount_dollars * points_per_dollar)
base_points(dollars, rate) == Truncate(FloatTimes(dollars, rate))

\* Purchase.calculate_points
calculate_points(cents, rate) ==
    base_points(amount_dollars(cents), rate)
        + bonus_points(amount_dollars(cents))

(***************************************************************************)
(* The receipt texts and paths the environment produces.                   *)
(***************************************************************************)
\* Store ABC / Milk 3.50 / Bread 2.00 / SUBTOTAL 5.50 / TAX 0.40 /
\* TOTAL: $5.90 / Thank you / Receipt #R1001
ReferenceReceipt == <<
    "S","t","o","r","e"," ","A","B","C","\n","M","i","l","k"," ","3",".",
    "5","0","\n","B","r","e","a","d"," ","2",".","0","0","\n","S","U","B",
    "T","O","T","A","L"," ","5",".","5","0","\n","T","A","X"," ","0",".",
    "4","0","\n","T","O","T","A","L",":"," ","$","5",".","9","0","\n","T",
    "h","a","n","k"," ","y","o","u","\n","R","e","c","e","i","p","t"," ",
    "#","R","1","0","0","1" >>

\* Printer page / Total 1.00 / ok ok ok      (one indicator, a total)
OneKeywordText == <<
    "P","r","i","n","t","e","r"," ","p","a","g","e","\n","T","o","t","a",
    "l"," ","1",".","0","0","\n","o","k"," ","o","k"," ","o","k" >>

\* Thank you for the payment                 (two indicators, no total)
ZeroTotalText == <<
    "T","h","a","n","k"," ","y","o","u"," ","f","o","r"," ","t","h","e"," ",
    "p","a","y","m","e","n","t" >>

\* white space only
BlankText == << " ", "\n", " " >>

Corpus == [reference   |-> ReferenceReceipt,
           one_keyword |-> OneKeywordText,
           zero_total  |-> ZeroTotalText,
           blank       |-> BlankText]

TextIds == DOMAIN Corpus

\* the parser's answers on the corpus
ValidIds == {t \in TextIds : is_valid_receipt(Corpus[t])}

TotalOf == [t \in TextIds |-> extract_total(Corpus[t])]

\* parse_receipt: the record handed on (the fields the correlation uses)
parse_receipt(t) == [raw_text |-> t, total |-> TotalOf[t]]

PathNames == [r1  |-> <<"r","1",".","t","x","t">>,
              r2  |-> <<"R","2",".","P","R","N">>,
              doc |-> <<"d","o","c",".","p","d","f">>]

Paths == DOMAIN PathNames

receipt_extensions == {
    <<".","t","x","t">>, <<".","p","r","n">>,
    <<".","s","p","l">>, <<".","l","o","g">> }

\* a filter that lets every file name through
is_receipt_file_any(name) == TRUE

\* _is_receipt_file
is_receipt_file(name) ==
    \E ext \in receipt_extensions : EndsWith(lower(name), ext)

ReceiptPaths == {p \in Paths : is_receipt_file(PathNames[p])}

\* the lines the texts handed to the parser are made of: Milk 3.50,
\* Cola  $1.25, SUBTOTAL 5.50, TOTAL: $5.90, Gum $1.00 Tax 2.00, Tax 0.40,
\* Thank you, Receipt #R1001, a 1, and ten spaces
Lines == {
    <<"M","i","l","k"," ","3",".","5","0" >>,
    <<"C","o","l","a"," "," ","$","1",".","2","5" >>,
    <<"S","U","B","T","O","T","A","L"," ","5",".","5","0" >>,
    <<"T","O","T","A","L",":"," ","$","5",".","9","0" >>,
    <<"G","u","m"," ","$","1",".","0","0"," ","T","a","x"," ","2",".","0",
      "0" >>,
    <<"T","a","x"," ","0",".","4","0" >>,
    <<"T","h","a","n","k"," ","y","o","u" >>,
    <<"R","e","c","e","i","p","t"," ","#","R","1","0","0","1" >>,
    <<"a"," ","1" >>,
    <<" "," "," "," "," "," "," "," "," "," " >> }

\* the longest text made of these lines, in lines
MaxLines == 2

RECURSIVE Joined(_)
\* the texts of up to n lines
Joined(n) ==
    IF n = 1 THEN Lines
    ELSE Joined(n - 1)
            \cup {t \o <<"\n">> \o l : t \in Joined(n - 1), l \in Lines}

\* the arguments the parser is called with
Inputs ==
    {Str(t) : t \in Joined(MaxLines)}
        \cup {Str(Corpus[t]) : t \in TextIds} \cup {NotStr}

\* the texts that content.strip() finds empty
BlankIds == {t \in TextIds : StripLen(Corpus[t]) = 0}

(***************************************************************************)
(* Values.                                                                 *)
(***************************************************************************)
\* the websockets that connect to /ws/tablet and to /ws/electron
AllTabletConns == {"t1", "t2"}

AllElectronConns == {"e1", "e2"}

\* the barcodes a customer_scanned message carries
Tokens == {"LOY1234", "LOY5678"}

\* Python's None, for a connection slot and for a dictionary
NoConn == "None"

None == [none |-> TRUE]

\* the seconds at which something happens
Instants ==
    {t \in 0..MaxClock : t = 0 \/ t >= receipt_match_window_seconds}

\* datetime.isoformat() of a naive UTC time: no offset is written
isoformat(t) == [seconds |-> t, offset |-> "naive"]

\* datetime.fromisoformat(s.replace('Z', '+00:00'))
fromisoformat(s) == [seconds |-> s.seconds, aware |-> s.offset # "naive"]

VARIABLES
    now,                    \* datetime.utcnow(), in seconds
    tablet_connection,      \* WebSocketManager.tablet_connection
    electron_connection,    \* WebSocketManager.electron_connection
    current_customer_scan,  \* WebSocketManager.current_customer_scan
    tablet_state,           \* WebSocketManager.tablet_state
    tablet_loop,            \* websocket_tablet_endpoint, per websocket:
                            \*   "closed", "recv" (in receive_json) or
                            \*   "sleep" (in the handler's asyncio.sleep(5))
    electron_loop,          \* websocket_electron_endpoint: "closed" or "recv"
    processed_files,        \* ReceiptMonitor.processed_files
    debouncing,             \* per path, the _process_file coroutines that
                            \*   are in asyncio.sleep(0.5)
    purchase_tasks,         \* the tasks add_test_receipt created, not yet run
    last                    \* history: what the last step did and sent

manager == <<tablet_connection, electron_connection, current_customer_scan,
             tablet_state>>

loops == <<tablet_loop, electron_loop>>

monitor == <<processed_files, debouncing, purchase_tasks>>

VARIABLES
    lifespan,               \* main.lifespan: "startup" (start_monitoring not
                            \*   yet run), "running" or "shutdown"
    is_monitoring,          \* ReceiptMonitor.is_monitoring
    observer,               \* ReceiptMonitor.observer: "None", "unstarted",
                            \*   "running" or "stopped"
    housekeeping,           \* the tasks of _process_pending_receipts in the
                            \*   order of their creation, each "created",
                            \*   "sleep" (in asyncio.sleep(5)) or "done"
    marked,                 \* history: the paths in the order in which
                            \*   processed_files.add took them
    last_read,              \* history: what the last _read_receipt_file found
    awaiting                \* history: the scan of the process_purchase that
                            \*   reached the control application and that no
                            \*   receipt_processed has answered yet

lifecycle == <<lifespan, is_monitoring, observer, housekeeping>>

history == <<marked, last_read, awaiting>>

VARIABLES
    receipt_text,           \* the argument the parser is called with
    called,                 \* which of parse_receipt and is_valid_receipt
                            \*   have returned
    parsed_data,            \* what parse_receipt returned
    receipt_valid           \* what is_valid_receipt returned

parser == <<receipt_text, called, parsed_data, receipt_valid>>

VARIABLES
    amount_cents,           \* Purchase.amount_cents
    points_per_dollar,      \* the argument of calculate_points
    points_awarded          \* Purchase.points_awarded

scoring == <<amount_cents, points_per_dollar, points_awarded>>

vars == <<now, manager, loops, monitor, lifecycle, history, parser, scoring,
          last>>

\* the record of a step that did nothing of note
Quiet == [op         |-> "init",
          path       |-> "",
          text       |-> "",
          read       |-> FALSE,   \* the pipeline read non-empty content
          extracted  |-> FALSE,   \* parse_receipt ran
          retained   |-> FALSE,   \* the path was in processed_files then
          handed     |-> FALSE,   \* the record reached a matching step
          matched    |-> FALSE,   \* the matching step returned a scan
          elapsed    |-> -1,      \* now - scanned_at at the matching step
          scan       |-> None,    \* the scan the matching step returned
          logged     |-> FALSE,   \* "Processed purchase for customer" logged
          from_state |-> "",      \* tablet_state when the step began
          prev_scan  |-> None,    \* current_customer_scan when it began
          replaced   |-> "None",  \* the connection a connect found in the slot
          sent       |-> <<>>]    \* the sends made to a connection, in order

(***************************************************************************)
(* WebSocketManager: sending.                                              *)
(***************************************************************************)
\* a send that leaves a broken connection in its slot
Send_keeps_broken(slot, ok, to, action, body) ==
    IF slot = NoConn
    THEN [slot |-> NoConn, out |-> <<>>]
    ELSE [slot |-> slot,
          out  |-> <<[to |-> to, conn |-> slot, ok |-> ok,
                      action |-> action, body |-> body]>>]

\* one send to the connection in a slot: the slot afterwards and the send
\* made.  Nothing is sent to an empty slot; a send that raises empties it.
Send(slot, ok, to, action, body) ==
    IF slot = NoConn
    THEN [slot |-> NoConn, out |-> <<>>]
    ELSE [slot |-> IF ok THEN slot ELSE NoConn,
          out  |-> <<[to |-> to, conn |-> slot, ok |-> ok,
                      action |-> action, body |-> body]>>]

send_to_tablet(slot, ok, action, body) == Send(slot, ok, "tablet", action, body)

send_to_electron(slot, ok, action, body) ==
    Send(slot, ok, "electron", action, body)

(***************************************************************************)
(* WebSocketManager: connections.                                          *)
(***************************************************************************)
\* parsed_data before parse_receipt has returned
NotParsed == [raw_text |-> NotStr]

\* the coordinator and the monitor as constructed
Constructed ==
    /\ now = 0
    /\ tablet_connection = NoConn
    /\ electron_connection = NoConn
    /\ current_customer_scan = None
    /\ tablet_state = "idle"
    /\ tablet_loop = [c \in AllTabletConns |-> "closed"]
    /\ electron_loop = [c \in AllElectronConns |-> "closed"]
    /\ processed_files = {}
    /\ debouncing = [p \in Paths |-> 0]
    /\ purchase_tasks = <<>>
    /\ lifespan = "startup"
    /\ is_monitoring = FALSE
    /\ observer = "None"
    /\ housekeeping = <<>>
    /\ marked = <<>>
    /\ last_read = ""
    /\ awaiting = None
    /\ last = Quiet

\* no call of the parser made
ParserIdle ==
    /\ receipt_text = NotStr
    /\ called = {}
    /\ parsed_data = NotParsed
    /\ receipt_valid = FALSE

\* Purchase.points_awarded before calculate_points has set it (None)
NotCalculated == -1

\* no purchase to score
ScoringIdle ==
    /\ amount_cents = 0
    /\ points_per_dollar = 1
    /\ points_awarded = NotCalculated

Init ==
    /\ Constructed
    /\ ParserIdle
    /\ ScoringIdle

\* what a step leaves in `last`
Did(op, sent) == [Quiet EXCEPT !.op = op, !.sent = sent]

\* a slot that keeps the connection it holds
accept_connection_keeps(slot, websocket) ==
    IF slot = NoConn THEN websocket ELSE slot

\* the slot after `self.tablet_connection = websocket` (and the same for the
\* control application)
accept_connection(slot, websocket) == websocket

\* websocket_tablet_endpoint up to its first receive_json: connect_tablet
connect_tablet(c, ok) ==
    LET t == send_to_tablet(accept_connection(tablet_connection, c), ok,
                            "set_state", [state |-> "idle"])
    IN  /\ tablet_loop[c] = "closed"
        /\ tablet_connection' = t.slot
        /\ tablet_loop' = [tablet_loop EXCEPT ![c] = "recv"]
        /\ last' = [Did("connect_tablet", t.out) EXCEPT
                       !.replaced = tablet_connection]
        /\ UNCHANGED <<now, electron_connection, current_customer_scan,
                       tablet_state, electron_loop, monitor>>

\* websocket_electron_endpoint up to its first receive_json: connect_electron
connect_electron(c, ok) ==
    LET e == send_to_electron(accept_connection(electron_connection, c), ok,
                              "connected", [timestamp |-> isoformat(now)])
    IN  /\ electron_loop[c] = "closed"
        /\ electron_connection' = e.slot
        /\ electron_loop' = [electron_loop EXCEPT ![c] = "recv"]
        /\ last' = [Did("connect_electron", e.out) EXCEPT
                       !.replaced = electron_connection]
        /\ UNCHANGED <<now, tablet_connection, current_customer_scan,
                       tablet_state, tablet_loop, monitor>>

\* receive_json raises WebSocketDisconnect: disconnect_tablet
disconnect_tablet(c) ==
    /\ tablet_loop[c] = "recv"
    /\ tablet_connection' = NoConn
    /\ tablet_state' = "idle"
    /\ tablet_loop' = [tablet_loop EXCEPT ![c] = "closed"]
    /\ last' = Did("disconnect_tablet", <<>>)
    /\ UNCHANGED <<now, electron_connection, current_customer_scan,
                   electron_loop, monitor>>

\* a control disconnect that resets the tablet session as well
disconnect_electron_resets(c) ==
    /\ electron_loop[c] = "recv"
    /\ electron_connection' = NoConn
    /\ tablet_state' = "idle"
    /\ electron_loop' = [electron_loop EXCEPT ![c] = "closed"]
    /\ last' = Did("disconnect_electron", <<>>)
    /\ UNCHANGED <<now, tablet_connection, current_customer_scan,
                   tablet_loop, monitor>>

\* receive_json raises WebSocketDisconnect: disconnect_electron
disconnect_electron(c) ==
    /\ electron_loop[c] = "recv"
    /\ electron_connection' = NoConn
    /\ electron_loop' = [electron_loop EXCEPT ![c] = "closed"]
    /\ last' = Did("disconnect_electron", <<>>)
    /\ UNCHANGED <<now, tablet_connection, current_customer_scan,
                   tablet_state, tablet_loop, monitor>>

(***************************************************************************)
(* WebSocketManager: the state machine.                                    *)
(***************************************************************************)
\* a reset that forgets the scan
reset_scan_kept(scan) == scan

\* the scan _reset_to_idle leaves in the slot
reset_scan(scan) == None

\* _reset_to_idle
reset_to_idle(op, tOk, eOk) ==
    LET t == send_to_tablet(tablet_connection, tOk, "set_state",
                            [state |-> "idle"])
        e == send_to_electron(electron_connection, eOk, "tablet_reset",
                              [tablet_state |-> "idle"])
    IN  /\ tablet_state' = "idle"
        /\ current_customer_scan' = reset_scan(current_customer_scan)
        /\ tablet_connection' = t.slot
        /\ electron_connection' = e.slot
        /\ last' = [Did(op, t.out \o e.out) EXCEPT
                       !.from_state = tablet_state,
                       !.prev_scan = current_customer_scan]

\* a start of registration that does not acknowledge to the control peer
start_customer_registration_no_ack(tOk, eOk) ==
    LET t == send_to_tablet(tablet_connection, tOk, "show_registration_form",
                            [timeout |-> 120])
    IN  /\ tablet_state' = "registration"
        /\ tablet_connection' = t.slot
        /\ last' = [Did("start_registration", t.out) EXCEPT
                       !.from_state = tablet_state]
        /\ UNCHANGED <<electron_connection, current_customer_scan>>

\* _start_customer_registration
start_customer_registration(tOk, eOk) ==
    LET t == send_to_tablet(tablet_connection, tOk, "show_registration_form",
                            [timeout |-> 120])
        e == send_to_electron(electron_connection, eOk, "registration_started",
                              [tablet_state |-> "registration"])
    IN  /\ tablet_state' = "registration"
        /\ tablet_connection' = t.slot
        /\ electron_connection' = e.slot
        /\ last' = [Did("start_registration", t.out \o e.out) EXCEPT
                       !.from_state = tablet_state]
        /\ UNCHANGED current_customer_scan

\* a slot that keeps its first scan until it is consumed
record_scan_first_wins(scan, barcode, t) ==
    IF scan = None
    THEN [barcode |-> barcode, scanned_at |-> isoformat(t)]
    ELSE scan

\* the scan _handle_customer_scan leaves in the slot
record_scan(scan, barcode, t) ==
    [barcode |-> barcode, scanned_at |-> isoformat(t)]

\* _handle_customer_scan
handle_customer_scan(barcode, tOk) ==
    LET t == send_to_tablet(tablet_connection, tOk, "show_customer_info",
                            [barcode |-> barcode, auto_reset |-> 10])
    IN  /\ current_customer_scan' =
               record_scan(current_customer_scan, barcode, now)
        /\ tablet_connection' = t.slot
        /\ last' = [Did("customer_scanned", t.out) EXCEPT
                       !.scan = [barcode    |-> barcode,
                                 scanned_at |-> isoformat(now)],
                       !.prev_scan = current_customer_scan]
        /\ UNCHANGED <<electron_connection, tablet_state>>

\* _handle_receipt_processed; receipt_data.get("points_awarded", 0) is points
handle_receipt_processed(points, tOk) ==
    LET t == send_to_tablet(tablet_connection, tOk, "show_purchase_complete",
                            [points_awarded |-> points, auto_reset |-> 8])
    IN  /\ current_customer_scan' = None
        /\ tablet_connection' = t.slot
        /\ last' = Did("receipt_processed", t.out)
        /\ UNCHANGED <<electron_connection, tablet_state>>

\* _handle_customer_registration up to asyncio.sleep(5).  With customer_data
\* a dictionary the confirmation is shown and the coroutine sleeps; with any
\* other JSON value customer_data.get raises after the forward, the handler
\* shows the error and returns.
handle_customer_registration(c, is_dict, tOk, eOk) ==
    LET e == send_to_electron(electron_connection, eOk,
                              "process_customer_registration",
                              [timestamp |-> isoformat(now)])
        t == IF is_dict
             THEN send_to_tablet(tablet_connection, tOk, "show_confirmation",
                                 [type |-> "success", auto_reset |-> 5])
             ELSE send_to_tablet(tablet_connection, tOk, "show_error",
                                 [auto_reset |-> 3])
    IN  /\ electron_connection' = e.slot
        /\ tablet_connection' = t.slot
        /\ tablet_loop' = [tablet_loop EXCEPT
                              ![c] = IF is_dict THEN "sleep" ELSE "recv"]
        /\ last' = Did("submit_customer_form", e.out \o t.out)
        /\ UNCHANGED <<current_customer_scan, tablet_state>>

\* _handle_customer_registration after asyncio.sleep(5): _reset_to_idle
auto_reset(c, tOk, eOk) ==
    /\ tablet_loop[c] = "sleep"
    /\ reset_to_idle("auto_reset", tOk, eOk)
    /\ tablet_loop' = [tablet_loop EXCEPT ![c] = "recv"]
    /\ UNCHANGED <<now, electron_loop, monitor>>

\* a dispatch that records a scan for an action it has no branch for
ignore_message_records(op) ==
    /\ current_customer_scan' = [barcode |-> "", scanned_at |-> isoformat(now)]
    /\ last' = Did(op, <<>>)
    /\ UNCHANGED <<now, tablet_connection, electron_connection, tablet_state,
                   loops, monitor>>

\* no branch of the if/elif chain takes the action: the handler returns
ignore_message(op) ==
    /\ last' = Did(op, <<>>)
    /\ UNCHANGED <<now, manager, loops, monitor>>

\* the actions a peer puts in a message
TabletActions ==
    {"submit_customer_form", "reset_to_idle", "heartbeat", "customer_scanned"}

ElectronActions ==
    {"start_registration", "customer_scanned", "receipt_processed",
     "reset_tablet", "heartbeat"}

\* handle_tablet_message, for a message received on websocket c
handle_tablet_message(c, action, is_dict, tOk, eOk) ==
    /\ tablet_loop[c] = "recv"
    /\ CASE action = "submit_customer_form" ->
              /\ handle_customer_registration(c, is_dict, tOk, eOk)
              /\ UNCHANGED <<now, electron_loop, monitor>>
         [] action = "reset_to_idle" ->
              /\ reset_to_idle("reset", tOk, eOk)
              /\ UNCHANGED <<now, loops, monitor>>
         [] action = "heartbeat" ->
              LET t == send_to_tablet(tablet_connection, tOk, "heartbeat_ack",
                                      [none |-> TRUE])
              IN  /\ tablet_connection' = t.slot
                  /\ last' = Did("heartbeat", t.out)
                  /\ UNCHANGED <<now, electron_connection,
                                 current_customer_scan, tablet_state, loops,
                                 monitor>>
         [] OTHER -> ignore_message("tablet:" \o action)

\* handle_electron_message, for a message received on websocket c
handle_electron_message(c, action, barcode, points, tOk, eOk) ==
    /\ electron_loop[c] = "recv"
    /\ CASE action = "start_registration" ->
              /\ start_customer_registration(tOk, eOk)
              /\ UNCHANGED <<now, loops, monitor>>
         [] action = "customer_scanned" ->
              /\ handle_customer_scan(barcode, tOk)
              /\ UNCHANGED <<now, loops, monitor>>
         [] action = "receipt_processed" ->
              /\ handle_receipt_processed(points, tOk)
              /\ UNCHANGED <<now, loops, monitor>>
         [] action = "reset_tablet" ->
              /\ reset_to_idle("reset", tOk, eOk)
              /\ UNCHANGED <<now, loops, monitor>>
         [] OTHER -> ignore_message("electron:" \o action)

(***************************************************************************)
(* ReceiptMonitor: matching.                                               *)
(***************************************************************************)
\* a window that excludes its boundary
within_window_strict(time_diff) == time_diff < receipt_match_window_seconds

\* the comparison of _match_customer_scan
within_window(time_diff) == time_diff <= receipt_match_window_seconds

\* now - scanned_at for a live scan, -1 for None
elapsed_of(scan, t) ==
    IF scan = None THEN -1 ELSE t - fromisoformat(scan.scanned_at).seconds

\* a matching step that takes the scan in the slot whatever its age
match_customer_scan_any_age(scan, t) == scan

\* _match_customer_scan: the scan, or None.  Subtracting an offset-aware
\* scan time from utcnow() raises TypeError, which is logged.
match_customer_scan(scan, t) ==
    IF scan = None
    THEN None
    ELSE IF fromisoformat(scan.scanned_at).aware
         THEN None
         ELSE IF within_window(elapsed_of(scan, t)) THEN scan ELSE None

\* _process_customer_purchase: send_to_electron does not raise, so the
\* "Processed purchase for customer" line is logged after every call
process_customer_purchase(customer_scan, receipt_data, t, slot, ok) ==
    LET e == send_to_electron(slot, ok, "process_purchase",
                [barcode      |-> customer_scan.barcode,
                 receipt_data |-> receipt_data,
                 scanned_at   |-> customer_scan.scanned_at,
                 processed_at |-> isoformat(t)])
    IN  [slot |-> e.slot, out |-> e.out, logged |-> TRUE]

(***************************************************************************)
(* ReceiptMonitor: the file pipeline.                                      *)
(***************************************************************************)
\* what _read_receipt_file finds: a text of the corpus, or an I/O error
ReadOutcomes == TextIds \cup {"io_error"}

\* a read that hands on white space as content
read_receipt_file_keeps_blank(outcome) ==
    IF outcome = "io_error" THEN "" ELSE outcome

\* a read whose I/O error comes back as if it were content
read_receipt_file_unguarded(outcome) ==
    IF outcome \in BlankIds THEN "" ELSE outcome

\* _read_receipt_file: the content, or "" for None (nothing but white space
\* under every decoding, or an exception)
read_receipt_file(outcome) ==
    IF outcome = "io_error" THEN ""
    ELSE IF outcome \in BlankIds THEN "" ELSE outcome

InDebounce == LET RECURSIVE Sum(_)
                  Sum(S) == IF S = {} THEN 0
                            ELSE LET p == CHOOSE q \in S : TRUE
                                 IN  debouncing[p] + Sum(S \ {p})
              IN  Sum(Paths)

\* _process_file up to asyncio.sleep(0.5), started by on_created
\* (process_new_file) or on_modified (process_modified_file)
process_file_begin(p, event_type) ==
    /\ debouncing' = IF p \in processed_files
                     THEN debouncing
                     ELSE [debouncing EXCEPT ![p] = @ + 1]
    /\ last' = Did("file_event", <<>>)
    /\ UNCHANGED <<now, manager, loops, processed_files, purchase_tasks>>

process_new_file(p) == process_file_begin(p, "created")

process_modified_file(p) == process_file_begin(p, "modified")

\* a run that tells the control application of a receipt without customer
no_customer_match_reports(slot) ==
    [slot |-> slot,
     out |-> send_to_electron(slot, TRUE, "show_error", <<>>).out,
     logged |-> FALSE]

\* _process_file when _match_customer_scan returned None: a log line, and
\* nothing sent
no_customer_match(slot) == [slot |-> slot, out |-> <<>>, logged |-> FALSE]

\* the paths in processed_files once _process_file has found content in p
\* valid (TRUE) or not
mark_processed(files, p, valid) == IF valid THEN files \cup {p} ELSE files

\* _process_file after asyncio.sleep(0.5)
process_file_resume(p, outcome, eOk) ==
    LET content   == IF p \in ReceiptPaths THEN read_receipt_file(outcome)
                     ELSE ""
        read      == content # ""
        valid     == read /\ content \in ValidIds
        match     == IF valid
                     THEN match_customer_scan(current_customer_scan, now)
                     ELSE None
        purchase  == IF match # None
                     THEN process_customer_purchase(match,
                              parse_receipt(content), now,
                              electron_connection, eOk)
                     ELSE no_customer_match(electron_connection)
    IN  /\ debouncing[p] > 0
        /\ debouncing' = [debouncing EXCEPT ![p] = @ - 1]
        /\ processed_files' =
               IF read THEN mark_processed(processed_files, p, valid)
               ELSE processed_files
        /\ electron_connection' = purchase.slot
        /\ last' = [Did("process_file", purchase.out) EXCEPT
                       !.path = p,
                       !.read = read,
                       !.extracted = read,
                       !.retained = read /\ p \in processed_files,
                       !.handed = valid,
                       !.matched = (match # None),
                       !.elapsed = IF valid
                                   THEN elapsed_of(current_customer_scan, now)
                                   ELSE -1,
                       !.scan = match,
                       !.logged = purchase.logged]
        /\ UNCHANGED <<now, tablet_connection, current_customer_scan,
                       tablet_state, loops, purchase_tasks>>

(***************************************************************************)
(* ReceiptMonitor: direct injection.                                       *)
(***************************************************************************)
\* the scan add_test_receipt takes as the customer match
injected_match(scan, t) == scan

\* add_test_receipt: it parses, takes the scan in the slot and creates the
\* task of _process_customer_purchase
add_test_receipt(text) ==
    LET customer_match == injected_match(current_customer_scan, now)
    IN  /\ purchase_tasks' =
               IF customer_match # None
               THEN Append(purchase_tasks,
                           [customer_scan |-> customer_match,
                            receipt_data  |-> parse_receipt(text)])
               ELSE purchase_tasks
        /\ last' = [Did("add_test_receipt", <<>>) EXCEPT
                       !.text = text,
                       !.extracted = TRUE,
                       !.handed = TRUE,
                       !.matched = (customer_match # None),
                       !.elapsed = elapsed_of(current_customer_scan, now),
                       !.scan = customer_match]
        /\ UNCHANGED <<now, manager, loops, processed_files, debouncing>>

\* the task add_test_receipt created runs: _process_customer_purchase
run_purchase_task(eOk) ==
    /\ purchase_tasks # <<>>
    /\ LET task     == Head(purchase_tasks)
           purchase == process_customer_purchase(task.customer_scan,
                           task.receipt_data, now, electron_connection, eOk)
       IN  /\ electron_connection' = purchase.slot
           /\ last' = [Did("purchase_task", purchase.out) EXCEPT
                          !.text = task.receipt_data.raw_text,
                          !.scan = task.customer_scan,
                          !.logged = purchase.logged]
    /\ purchase_tasks' = Tail(purchase_tasks)
    /\ UNCHANGED <<now, tablet_connection, current_customer_scan, tablet_state,
                   loops, processed_files, debouncing>>

(***************************************************************************)
(* The environment and the specification.                                  *)
(***************************************************************************)
\* a clock that drops a scan once its 10 s indicator has cleared
Tick_expiring ==
    /\ \E t \in Instants : t > now /\ now' = t
    /\ current_customer_scan' = None
    /\ last' = Did("tick", <<>>)
    /\ UNCHANGED <<tablet_connection, electron_connection, tablet_state,
                   loops, monitor>>

\* time passes
Tick ==
    /\ \E t \in Instants : t > now /\ now' = t
    /\ last' = Did("tick", <<>>)
    /\ UNCHANGED <<manager, loops, monitor>>

\* the points_awarded a receipt_processed message carries (0 when absent)
Points == {0, 5}

\* one tablet and one control application connect, disconnect and reconnect
TabletConns == {"t1"}

ElectronConns == {"e1"}

\* the outcomes of a send to a slot: nothing is sent to an empty one
Oks(slot) == IF slot = NoConn THEN {TRUE} ELSE BOOLEAN

TabletMessage(c) ==
    \/ \E is_dict \in BOOLEAN, tOk \in Oks(tablet_connection),
          eOk \in Oks(electron_connection) :
          handle_tablet_message(c, "submit_customer_form", is_dict, tOk, eOk)
    \/ \E tOk \in Oks(tablet_connection), eOk \in Oks(electron_connection) :
          handle_tablet_message(c, "reset_to_idle", TRUE, tOk, eOk)
    \/ \E tOk \in Oks(tablet_connection) :
          handle_tablet_message(c, "heartbeat", TRUE, tOk, TRUE)
    \/ handle_tablet_message(c, "customer_scanned", TRUE, TRUE, TRUE)

ElectronMessage(c) ==
    \/ \E tOk \in Oks(tablet_connection), eOk \in Oks(electron_connection) :
          handle_electron_message(c, "start_registration", "", 0, tOk, eOk)
    \/ \E barcode \in Tokens, tOk \in Oks(tablet_connection) :
          handle_electron_message(c, "customer_scanned", barcode, 0, tOk, TRUE)
    \/ \E points \in Points, tOk \in Oks(tablet_connection) :
          handle_electron_message(c, "receipt_processed", "", points, tOk, TRUE)
    \/ \E tOk \in Oks(tablet_connection), eOk \in Oks(electron_connection) :
          handle_electron_message(c, "reset_tablet", "", 0, tOk, eOk)
    \/ handle_electron_message(c, "heartbeat", "", 0, TRUE, TRUE)

FileEvent ==
    /\ InDebounce < MaxTasks
    /\ \E p \in Paths : process_new_file(p) \/ process_modified_file(p)

FileRead ==
    \E p \in Paths, outcome \in ReadOutcomes,
       eOk \in Oks(electron_connection) : process_file_resume(p, outcome, eOk)

\* the peers, the clock and the file pipeline
Next ==
    /\ UNCHANGED <<lifecycle, history, parser, scoring>>
    /\ \/ \E c \in TabletConns, ok \in BOOLEAN : connect_tablet(c, ok)
       \/ \E c \in ElectronConns, ok \in BOOLEAN : connect_electron(c, ok)
       \/ \E c \in TabletConns : disconnect_tablet(c)
       \/ \E c \in ElectronConns : disconnect_electron(c)
       \/ \E c \in TabletConns : TabletMessage(c)
       \/ \E c \in TabletConns, tOk \in Oks(tablet_connection),
             eOk \in Oks(electron_connection) : auto_reset(c, tOk, eOk)
       \/ \E c \in ElectronConns : ElectronMessage(c)
       \/ FileEvent
       \/ FileRead
       \/ Tick

Spec == Init /\ [][Next]_vars

\* one file event at a time
SingleFileEvent ==
    /\ InDebounce = 0
    /\ \E p \in Paths : process_new_file(p) \/ process_modified_file(p)

Inject ==
    /\ Len(purchase_tasks) < MaxInject
    /\ \E text \in TextIds : add_test_receipt(text)

\* the control application, the clock, the file pipeline and direct
\* injection; no tablet connects
NextInject ==
    /\ UNCHANGED <<lifecycle, history, parser, scoring>>
    /\ \/ \E c \in ElectronConns, ok \in BOOLEAN : connect_electron(c, ok)
       \/ \E c \in ElectronConns : disconnect_electron(c)
       \/ \E c \in ElectronConns : ElectronMessage(c)
       \/ SingleFileEvent
       \/ FileRead
       \/ Inject
       \/ \E eOk \in Oks(electron_connection) : run_purchase_task(eOk)
       \/ Tick

SpecInject == Init /\ [][NextInject]_vars

\* two tablets and two control applications, the coordinator and the clock;
\* no file arrives
NextPeers ==
    /\ UNCHANGED <<lifecycle, history, parser, scoring>>
    /\ \/ \E c \in AllTabletConns, ok \in BOOLEAN : connect_tablet(c, ok)
       \/ \E c \in AllElectronConns, ok \in BOOLEAN : connect_electron(c, ok)
       \/ \E c \in AllTabletConns : disconnect_tablet(c)
       \/ \E c \in AllElectronConns : disconnect_electron(c)
       \/ \E c \in AllTabletConns : TabletMessage(c)
       \/ \E c \in AllTabletConns, tOk \in Oks(tablet_connection),
             eOk \in Oks(electron_connection) : auto_reset(c, tOk, eOk)
       \/ \E c \in AllElectronConns : ElectronMessage(c)
       \/ Tick

SpecPeers == Init /\ [][NextPeers]_vars

(***************************************************************************)
(* Purchases and their acknowledgement.                                    *)
(***************************************************************************)
\* the rest of a pipeline run, with the scan of a delivered process_purchase
\* written down
ScansFileRead ==
    \E p \in Paths, outcome \in ReadOutcomes,
       eOk \in Oks(electron_connection) :
        /\ process_file_resume(p, outcome, eOk)
        /\ awaiting' =
               IF \E i \in DOMAIN last'.sent :
                      /\ last'.sent[i].action = "process_purchase"
                      /\ last'.sent[i].ok
               THEN last'.scan
               ELSE awaiting

\* a message of the control application; its receipt_processed answers the
\* purchase that was waiting
ScansElectronMessage(c) ==
    /\ ElectronMessage(c)
    /\ awaiting' = IF last'.op = "receipt_processed" THEN None ELSE awaiting

\* the control application scans and acknowledges while receipts arrive and
\* time passes; no tablet connects
NextScans ==
    /\ UNCHANGED <<lifecycle, marked, last_read, parser, scoring>>
    /\ \/ /\ \E c \in ElectronConns, ok \in BOOLEAN : connect_electron(c, ok)
          /\ UNCHANGED awaiting
       \/ \E c \in ElectronConns : ScansElectronMessage(c)
       \/ SingleFileEvent /\ UNCHANGED awaiting
       \/ ScansFileRead
       \/ Tick /\ UNCHANGED awaiting

SpecScans == Init /\ [][NextScans]_vars

(***************************************************************************)
(* ReceiptMonitor: start, stop and the housekeeping task.                  *)
(***************************************************************************)
\* what start_monitoring can meet: the setting switched off, the folder
\* present, the folder missing, or Observer.start raising
StartOutcomes == {"disabled", "watching", "no_folder", "start_failed"}

\* start_monitoring: every call that gets past the folder test creates a
\* task of _process_pending_receipts
start_monitoring(outcome) ==
    /\ observer' = CASE outcome = "disabled" -> observer
                     [] outcome = "watching" -> "running"
                     [] OTHER                -> "unstarted"
    /\ is_monitoring' = IF outcome = "watching" THEN TRUE ELSE is_monitoring
    /\ housekeeping' = IF outcome \in {"watching", "no_folder"}
                       THEN Append(housekeeping, "created")
                       ELSE housekeeping
    /\ last' = Did("start_monitoring", <<>>)
    /\ UNCHANGED <<now, manager, loops, monitor, history, parser,
                   scoring>>

\* main.lifespan before its yield: start_monitoring run once as a task
lifespan_startup(outcome) ==
    /\ lifespan = "startup"
    /\ lifespan' = "running"
    /\ start_monitoring(outcome)

\* the flag as stop_monitoring leaves it
stop_monitoring_keeps_flag(flag) == flag

stop_flag(flag) == FALSE

\* stop_monitoring; joining an observer thread that was never started
\* raises before the flag is written
stop_monitoring ==
    /\ observer' = IF observer = "running" THEN "stopped" ELSE observer
    /\ is_monitoring' = IF observer = "unstarted" THEN is_monitoring
                        ELSE stop_flag(is_monitoring)
    /\ last' = Did("stop_monitoring", <<>>)
    /\ UNCHANGED <<now, manager, loops, monitor, housekeeping, history,
                   parser, scoring>>

\* main.lifespan after its yield: stop_monitoring awaited once; what it
\* raises ends the shutdown
lifespan_shutdown ==
    /\ lifespan = "running"
    /\ lifespan' = IF observer = "unstarted" THEN "shutdown_failed"
                   ELSE "shutdown"
    /\ stop_monitoring

\* a housekeeping pass that never trims
trim_processed_files_never(files) == {files}

\* set(list(processed_files)[-500:]): a set lists its members in an order
\* that has nothing to do with when they were added, so the slice can be
\* any TrimKeep of them
trim_processed_files(files) ==
    IF Cardinality(files) > TrimAbove
    THEN {keep \in SUBSET files : Cardinality(keep) = TrimKeep}
    ELSE {files}

\* one turn of the loop of _process_pending_receipts in task k: the test
\* of is_monitoring, the trim, and the suspension in asyncio.sleep(5)
process_pending_receipts(k) ==
    /\ housekeeping[k] \in {"created", "sleep"}
    /\ IF is_monitoring
       THEN /\ housekeeping' = [housekeeping EXCEPT ![k] = "sleep"]
            /\ \E keep \in trim_processed_files(processed_files) :
                   /\ processed_files' = keep
                   /\ marked' = SelectSeq(marked, LAMBDA q : q \in keep)
       ELSE /\ housekeeping' = [housekeeping EXCEPT ![k] = "done"]
            /\ UNCHANGED <<processed_files, marked>>
    /\ last' = Did("housekeeping", <<>>)
    /\ UNCHANGED <<now, manager, loops, debouncing, purchase_tasks,
                   lifespan, is_monitoring, observer, last_read, awaiting,
                   parser, scoring>>

\* the event loop runs a task of _process_pending_receipts
run_housekeeping ==
    \E k \in DOMAIN housekeeping : process_pending_receipts(k)

\* ReceiptFileHandler.on_created and on_modified, called by the observer
\* while it runs
on_file_event ==
    /\ observer = "running"
    /\ FileEvent
    /\ UNCHANGED <<lifecycle, history, parser, scoring>>

\* the rest of a pipeline run, with the order of processed_files.add and
\* the outcome of the read written down
MonitorFileRead ==
    \E p \in Paths, outcome \in ReadOutcomes,
       eOk \in Oks(electron_connection) :
        /\ process_file_resume(p, outcome, eOk)
        /\ marked' = IF last'.handed
                     THEN Append(SelectSeq(marked, LAMBDA q : q # p), p)
                     ELSE marked
        /\ last_read' = IF p \in ReceiptPaths THEN outcome ELSE "unread"
        /\ UNCHANGED <<lifecycle, awaiting, parser, scoring>>

\* the monitor from startup to shutdown, with the control app connecting
\* and scanning
NextMonitor ==
    /\ UNCHANGED <<parser, scoring>>
    /\ \/ \E outcome \in StartOutcomes : lifespan_startup(outcome)
       \/ lifespan_shutdown
       \/ run_housekeeping
       \/ on_file_event
       \/ MonitorFileRead
       \/ /\ UNCHANGED <<lifecycle, history>>
          /\ \/ \E c \in ElectronConns, ok \in BOOLEAN :
                    connect_electron(c, ok)
             \/ \E c \in ElectronConns : ElectronMessage(c)

\* the event loop resumes the housekeeping task whenever its sleep is over
SpecMonitor ==
    Init /\ [][NextMonitor]_vars /\ WF_vars(run_housekeeping)

\* how many calls of start_monitoring create a task
MaxStarts == 3

\* start_monitoring and stop_monitoring called in any order, and the tasks
\* the calls created
NextCalls ==
    /\ UNCHANGED lifespan
    /\ \/ /\ Len(housekeeping) < MaxStarts
          /\ \E outcome \in StartOutcomes : start_monitoring(outcome)
       \/ stop_monitoring
       \/ run_housekeeping

SpecCalls == Init /\ [][NextCalls]_vars

(***************************************************************************)
(* ReceiptParser, called on its own.                                       *)
(***************************************************************************)
InitParser ==
    /\ Constructed
    /\ ScoringIdle
    /\ receipt_text \in Inputs
    /\ called = {}
    /\ parsed_data = NotParsed
    /\ receipt_valid = FALSE

call_parse_receipt ==
    /\ "parse_receipt" \notin called
    /\ called' = called \cup {"parse_receipt"}
    /\ parsed_data' = parse_record(receipt_text)
    /\ UNCHANGED <<receipt_text, receipt_valid>>

call_is_valid_receipt ==
    /\ "is_valid_receipt" \notin called
    /\ called' = called \cup {"is_valid_receipt"}
    /\ receipt_valid' = is_valid(receipt_text)
    /\ UNCHANGED <<receipt_text, parsed_data>>

NextParser ==
    /\ UNCHANGED <<now, manager, loops, monitor, lifecycle, history, scoring,
                   last>>
    /\ \/ call_parse_receipt
       \/ call_is_valid_receipt

\* the parser applied to every argument of Inputs
SpecParser == InitParser /\ [][NextParser]_vars

(***************************************************************************)
(* Purchase.calculate_points, called on its own.                           *)
(***************************************************************************)
\* the amounts scored, in cents: around each bonus threshold, and amounts
\* whose dollars are no exact binary fraction
Amounts == {0, 1, 99, 100, 820, 1640, 9999, 10000, 10001,
            24999, 25000, 25001, 49999, 50000, 50001}

\* the highest points-per-dollar rate scored
MaxRate == 15

InitScoring ==
    /\ Constructed
    /\ ParserIdle
    /\ amount_cents \in Amounts
    /\ points_per_dollar \in 1..MaxRate
    /\ points_awarded = NotCalculated

call_calculate_points ==
    /\ points_awarded = NotCalculated
    /\ points_awarded' = calculate_points(amount_cents, points_per_dollar)
    /\ UNCHANGED <<amount_cents, points_per_dollar>>

NextScoring ==
    /\ UNCHANGED <<now, manager, loops, monitor, lifecycle, history, parser,
                   last>>
    /\ call_calculate_points

\* calculate_points applied to every amount and rate
SpecScoring == InitScoring /\ [][NextScoring]_vars

(***************************************************************************)
(* What a step sent.                                                       *)
(***************************************************************************)
\* the sends of the last step to one kind of peer with one action
SentTo(to, action) ==
    {i \in 1..Len(last.sent) :
        last.sent[i].to = to /\ last.sent[i].action = action}

\* ... that did not raise
Delivered(to, action) == {i \in SentTo(to, action) : last.sent[i].ok}

(***************************************************************************)
(* C1.  Exactly-once correlation: a scan takes part in at most one match.  *)
(* Once a step of the file pipeline has matched a scan and notified the    *)
(* purchase, the next step does not match the same scan with a receipt     *)
(* from another path and notify a second purchase.                         *)
(***************************************************************************)
C1_ExactlyOnce ==
    [][~(/\ last.op = "process_file" /\ last.matched
         /\ Delivered("electron", "process_purchase") # {}
         /\ last'.op = "process_file" /\ last'.matched
         /\ Delivered("electron", "process_purchase")' # {}
         /\ last'.path # last.path
         /\ last'.scan = last.scan)
      ]_vars

(***************************************************************************)
(* C2.  At most once per path: the extractor never runs on a path that is  *)
(* in the processed-set, however the events for the path interleave.       *)
(***************************************************************************)
C2_AtMostOncePerPath == ~(last.extracted /\ last.retained)

(***************************************************************************)
(* C3.  Matching window boundary: a valid receipt of the file pipeline     *)
(* that meets a live scan matches exactly if the elapsed time is at most   *)
(* the matching window, the boundary included.                             *)
(***************************************************************************)
C3_WindowBoundary ==
    (last.op = "process_file" /\ last.handed /\ last.elapsed >= 0)
        => (last.matched <=> last.elapsed <= receipt_match_window_seconds)

C3_Witness ==
    /\ last.op = "process_file"
    /\ last.matched
    /\ last.elapsed = receipt_match_window_seconds

(***************************************************************************)
(* C4.  Single slot, last writer wins: a customer_scanned leaves its own   *)
(* scan in the slot whatever was there, no other step puts a scan into the *)
(* slot, and a matching step returns, and its purchase notification        *)
(* carries, the scan that is in the slot when it runs.                     *)
(***************************************************************************)
CarriesScan(scan) ==
    \A i \in SentTo("electron", "process_purchase") :
        /\ last.sent[i].body.barcode = scan.barcode
        /\ last.sent[i].body.scanned_at = scan.scanned_at

C4_LastWriterWins ==
    [][/\ last'.op = "customer_scanned"
            => current_customer_scan' = last'.scan
       /\ last'.op # "customer_scanned"
            => current_customer_scan' \in {None, current_customer_scan}
       /\ last'.matched
            => /\ current_customer_scan # None
               /\ last'.scan = current_customer_scan
       /\ (last'.op = "process_file" /\ last'.matched)
            => CarriesScan(current_customer_scan)'
      ]_vars

C4_Witness ==
    /\ last.op = "customer_scanned"
    /\ last.prev_scan # None
    /\ last.prev_scan.barcode # last.scan.barcode
    /\ current_customer_scan = last.scan

(***************************************************************************)
(* C5.  No match is dropped silently: a match that is logged as a          *)
(* processed purchase was delivered to the control peer.                   *)
(***************************************************************************)
C5_NoSilentDrop ==
    (last.matched /\ last.logged)
        => Delivered("electron", "process_purchase") # {}

(***************************************************************************)
(* C6.  On a match the purchase is notified to both peers: with both peers *)
(* connected, the matching step sends a purchase notification to the       *)
(* identity-facing peer and one to the control peer.                       *)
(***************************************************************************)
C6_NotifyBothPeers ==
    (last.matched /\ tablet_connection # NoConn /\ electron_connection # NoConn)
        => /\ Cardinality(Delivered("electron", "process_purchase")) = 1
           /\ Cardinality(Delivered("tablet", "show_purchase_complete")) = 1

(***************************************************************************)
(* C7.  Mark before extract: a path that the pipeline has read with        *)
(* non-empty content is in the processed-set afterwards, valid receipt or  *)
(* not.                                                                    *)
(***************************************************************************)
C7_MarkBeforeExtract ==
    (last.op = "process_file" /\ last.read) => last.path \in processed_files

(***************************************************************************)
(* C8.  Validity gating: a text that fails is_valid_receipt never causes a *)
(* purchase notification.                                                  *)
(***************************************************************************)
C8_ValidityGating ==
    \A i \in Delivered("electron", "process_purchase") :
        last.sent[i].body.receipt_data.raw_text \in ValidIds

(***************************************************************************)
(* C9.  One matching algorithm for every entry point: whenever a matching  *)
(* step returns a scan, file pipeline or direct injection, the scan is     *)
(* live and not older than the matching window.                            *)
(***************************************************************************)
C9_SameMatching ==
    last.matched
        => (last.elapsed >= 0 /\ last.elapsed <= receipt_match_window_seconds)

(***************************************************************************)
(* C10.  Reset: after a reset, from Idle or Registration, with or without  *)
(* a scan, the state is idle, the slot is empty, and each peer that is     *)
(* still connected has been sent the new state.                            *)
(***************************************************************************)
C10_Reset ==
    last.op \in {"reset", "auto_reset"}
        => /\ tablet_state = "idle"
           /\ current_customer_scan = None
           /\ tablet_connection # NoConn
                 => \E i \in Delivered("tablet", "set_state") :
                       /\ last.sent[i].conn = tablet_connection
                       /\ last.sent[i].body.state = "idle"
           /\ electron_connection # NoConn
                 => \E i \in Delivered("electron", "tablet_reset") :
                       /\ last.sent[i].conn = electron_connection
                       /\ last.sent[i].body.tablet_state = "idle"

C10_Witness ==
    /\ last.op = "reset"
    /\ last.from_state = "registration"
    /\ last.prev_scan # None
    /\ Delivered("tablet", "set_state") # {}
    /\ Delivered("electron", "tablet_reset") # {}

C12_NoMatchFrame ==
    [][(/\ last'.op = "process_file"
        /\ last'.handed
        /\ \/ current_customer_scan = None
           \/ elapsed_of(current_customer_scan, now)
                  > receipt_match_window_seconds)
          => /\ ~last'.matched
             /\ current_customer_scan' = current_customer_scan
             /\ tablet_state' = tablet_state
             /\ tablet_connection' = tablet_connection
             /\ electron_connection' = electron_connection
             /\ last'.sent = <<>>
      ]_vars

C12_Witness ==
    /\ last.op = "process_file"
    /\ last.handed
    /\ ~last.matched
    /\ last.elapsed > receipt_match_window_seconds
    /\ current_customer_scan # None
    /\ electron_connection # NoConn

(***************************************************************************)
(* C13.  Form submission sequence: every form submission, here in          *)
(* Registration with both peers connected, forwards the data to the        *)
(* control peer before it shows the confirmation to the identity-facing    *)
(* peer, and then waits out the confirmation delay, after which the        *)
(* automatic reset runs.                                                   *)
(***************************************************************************)
C13_FormSequence ==
    (/\ last.op = "submit_customer_form"
     /\ tablet_state = "registration"
     /\ tablet_connection # NoConn
     /\ electron_connection # NoConn)
        => /\ \A i, j \in 1..Len(last.sent) :
                 (last.sent[i].to = "electron" /\ last.sent[j].to = "tablet")
                     => i < j
           /\ \E c \in AllTabletConns : tablet_loop[c] = "sleep"

(***************************************************************************)
(* C14.  Forwarding fault during registration: when the submitted form is  *)
(* not delivered to the control peer, the identity-facing peer is shown    *)
(* the error confirmation and no success confirmation.                     *)
(***************************************************************************)
C14_ForwardingFault ==
    (/\ last.op = "submit_customer_form"
     /\ Delivered("electron", "process_customer_registration") = {}
     /\ tablet_connection # NoConn)
        => /\ SentTo("tablet", "show_confirmation") = {}
           /\ Delivered("tablet", "show_error") # {}

(***************************************************************************)
(* C15.  start_registration leaves the session in Registration, sends the  *)
(* form request with input timeout 120 to the identity-facing peer and,    *)
(* in a send of its own, the acknowledgement to the control peer, and      *)
(* leaves the scan slot as it is.                                          *)
(***************************************************************************)
C15_StartRegistration ==
    [][last'.op = "start_registration"
          => /\ tablet_state' = "registration"
             /\ current_customer_scan' = current_customer_scan
             /\ tablet_connection # NoConn
                   => \E i \in SentTo("tablet", "show_registration_form")' :
                         /\ last'.sent[i].conn = tablet_connection
                         /\ last'.sent[i].body.timeout = 120
             /\ electron_connection # NoConn
                   => \E i \in SentTo("electron", "registration_started")' :
                         /\ last'.sent[i].conn = electron_connection
                         /\ last'.sent[i].body.tablet_state = "registration"
      ]_vars

C15_Witness ==
    /\ last.op = "start_registration"
    /\ last.from_state = "idle"
    /\ tablet_state = "registration"
    /\ current_customer_scan # None
    /\ Delivered("tablet", "show_registration_form") # {}
    /\ Delivered("electron", "registration_started") # {}

(***************************************************************************)
(* C16.  A heartbeat from a peer, identity-facing or control, is answered  *)
(* with heartbeat_ack on the link it came from.                            *)
(***************************************************************************)
C16_HeartbeatAck ==
    /\ (last.op = "heartbeat" /\ tablet_connection # NoConn)
           => Delivered("tablet", "heartbeat_ack") # {}
    /\ (last.op = "electron:heartbeat" /\ electron_connection # NoConn)
           => Delivered("electron", "heartbeat_ack") # {}

(***************************************************************************)
(* C17.  A message whose action the handler of its link does not know is   *)
(* ignored: the session state, the scan slot and both peer slots stay as   *)
(* they are and nothing is sent.                                           *)
(***************************************************************************)
C17_UnrecognizedIgnored ==
    [][last'.op \in {"tablet:customer_scanned", "electron:heartbeat"}
          => /\ tablet_state' = tablet_state
             /\ current_customer_scan' = current_customer_scan
             /\ tablet_connection' = tablet_connection
             /\ electron_connection' = electron_connection
             /\ last'.sent = <<>>
      ]_vars

\* customer_scanned arrives on the link of a connected tablet and no scan is
\* in the slot afterwards
C17_Witness ==
    /\ last.op = "tablet:customer_scanned"
    /\ tablet_connection # NoConn
    /\ current_customer_scan = None

(***************************************************************************)
(* C18.  Sends fail soft: a send that raises empties the slot of its peer  *)
(* and the handler goes on (a reset whose send to the identity-facing peer *)
(* raised still sends to the control peer); a failing heartbeat_ack, the   *)
(* only send of its step, leaves the session state, the scan slot and the  *)
(* other peer's slot as they are; and nothing is sent to an empty slot.    *)
(***************************************************************************)
C18_FailSoft ==
    [][/\ \A i \in 1..Len(last'.sent) :
             ~last'.sent[i].ok
                 => IF last'.sent[i].to = "tablet"
                    THEN tablet_connection' = NoConn
                    ELSE electron_connection' = NoConn
       /\ (last'.op \in {"reset", "auto_reset"} /\ electron_connection # NoConn)
             => SentTo("electron", "tablet_reset")' # {}
       /\ last'.op = "heartbeat"
             => /\ tablet_state' = tablet_state
                /\ current_customer_scan' = current_customer_scan
                /\ electron_connection' = electron_connection
                /\ tablet_connection' \in {tablet_connection, NoConn}
                /\ tablet_connection = NoConn
                      => (last'.sent = <<>> /\ tablet_connection' = NoConn)
      ]_vars

\* the send of a reset to the tablet raised, and the control peer was told
C18_Witness ==
    /\ last.op = "reset"
    /\ \E i \in SentTo("tablet", "set_state") : ~last.sent[i].ok
    /\ tablet_connection = NoConn
    /\ Delivered("electron", "tablet_reset") # {}

(***************************************************************************)
(* C19.  One slot per kind of peer: a connect leaves the new connection in *)
(* the slot of its kind (or nothing, when its greeting raises) and the     *)
(* other kind's slot as it is, and every send goes to the connection that  *)
(* is in the slot, never to one that was replaced.                         *)
(***************************************************************************)
C19_SingleSlot ==
    [][/\ last'.op = "connect_tablet"
            => /\ \E c \in AllTabletConns :
                     /\ tablet_loop[c] = "closed" /\ tablet_loop'[c] = "recv"
                     /\ tablet_connection' \in {c, NoConn}
                     /\ \A i \in 1..Len(last'.sent) : last'.sent[i].conn = c
               /\ electron_connection' = electron_connection
       /\ last'.op = "connect_electron"
            => /\ \E c \in AllElectronConns :
                     /\ electron_loop[c] = "closed"
                     /\ electron_loop'[c] = "recv"
                     /\ electron_connection' \in {c, NoConn}
                     /\ \A i \in 1..Len(last'.sent) : last'.sent[i].conn = c
               /\ tablet_connection' = tablet_connection
       /\ last'.op \notin {"connect_tablet", "connect_electron"}
            => /\ tablet_connection' \in {tablet_connection, NoConn}
               /\ electron_connection' \in {electron_connection, NoConn}
               /\ \A i \in 1..Len(last'.sent) :
                     last'.sent[i].conn =
                         IF last'.sent[i].to = "tablet"
                         THEN tablet_connection
                         ELSE electron_connection
      ]_vars

\* a second tablet has replaced the first, with a control application
\* connected
C19_Witness ==
    /\ last.op = "connect_tablet"
    /\ last.replaced # NoConn
    /\ tablet_connection \notin {NoConn, last.replaced}
    /\ electron_connection # NoConn

(***************************************************************************)
(* C20.  Suspension points do not block unrelated events: whatever delay   *)
(* is pending, a connected peer's next message can be handled and a        *)
(* debounced file can be read.                                             *)
(***************************************************************************)
C20_NoBlocking ==
    /\ \A c \in AllElectronConns :
          electron_loop[c] # "closed" => ENABLED ElectronMessage(c)
    /\ \A c \in AllTabletConns :
          (tablet_loop[c] # "closed" /\ tablet_connection = c)
              => ENABLED TabletMessage(c)
    /\ \A p \in Paths :
          debouncing[p] > 0
              => ENABLED (\E outcome \in ReadOutcomes, eOk \in BOOLEAN :
                              process_file_resume(p, outcome, eOk))

(***************************************************************************)
(* C21.  Housekeeping evicts the oldest entries: when the processed-set    *)
(* is trimmed, every retained path was marked more recently than every     *)
(* evicted path.                                                           *)
(***************************************************************************)
MarkedAt(p) == CHOOSE i \in 1..Len(marked) : marked[i] = p

C21_EvictionOrder ==
    [][(last'.op = "housekeeping" /\ processed_files' # processed_files)
          => \A kept \in processed_files' :
                 \A gone \in processed_files \ processed_files' :
                     MarkedAt(kept) > MarkedAt(gone)
      ]_vars

(***************************************************************************)
(* C22.  Once stop_monitoring has returned, is_monitoring is false, no     *)
(* file event starts a pipeline run, the housekeeping task trims nothing   *)
(* more and eventually ends, and a debounced run still in flight           *)
(* completes as usual, leaving the stopped monitor as it is.               *)
(***************************************************************************)
Stopped == lifespan = "shutdown"

C22_Stop ==
    /\ [](Stopped => ~is_monitoring)
    /\ [][Stopped =>
             /\ \A p \in Paths : debouncing'[p] <= debouncing[p]
             /\ processed_files \subseteq processed_files'
             /\ last'.op = "process_file" =>
                    /\ debouncing'[last'.path] = debouncing[last'.path] - 1
                    /\ UNCHANGED lifecycle
       ]_vars
    /\ [](Stopped /\ InDebounce > 0 => ENABLED MonitorFileRead)
    /\ (Stopped ~> \A k \in DOMAIN housekeeping : housekeeping[k] = "done")

\* the monitor watched, was stopped, its housekeeping task has ended, and
\* a run that was in its debounce at the stop has since read a valid
\* receipt
C22_Witness ==
    /\ Stopped
    /\ observer = "stopped"
    /\ housekeeping = <<"done">>
    /\ last.op = "process_file"
    /\ last.handed

(***************************************************************************)
(* C23.  A file event for a path that does not end, whatever the case of   *)
(* its letters, in .txt, .prn, .spl or .log is ignored: the file is not    *)
(* read, nothing is extracted, no match is attempted, nothing is sent,     *)
(* and the path never enters the processed-set.                            *)
(***************************************************************************)
NoReceiptSuffix(p) ==
    \A ext \in receipt_extensions : ~EndsWith(lower(PathNames[p]), ext)

C23_SuffixFilter ==
    /\ \A p \in Paths : NoReceiptSuffix(p) => p \notin processed_files
    /\ (last.op = "process_file" /\ NoReceiptSuffix(last.path)) =>
           /\ last_read = "unread"
           /\ ~last.read
           /\ ~last.extracted
           /\ ~last.handed
           /\ ~last.matched
           /\ last.sent = <<>>

\* the run for doc.pdf ended while a customer scan was waiting and the
\* control application was connected
C23_Witness ==
    /\ last.op = "process_file"
    /\ NoReceiptSuffix(last.path)
    /\ current_customer_scan # None
    /\ electron_connection # NoConn

(***************************************************************************)
(* C24.  A read that fails with an I/O error ends its run quietly: no      *)
(* extraction, no match, nothing sent, the path not marked, no retry, the  *)
(* monitor and the coordinator as they were; the next file event can       *)
(* still be taken.                                                         *)
(***************************************************************************)
ReadFailed == last.op = "process_file" /\ last_read = "io_error"

C24_ReadFailure ==
    /\ [][ReadFailed' =>
             /\ ~last'.read
             /\ ~last'.extracted
             /\ ~last'.handed
             /\ ~last'.matched
             /\ last'.sent = <<>>
             /\ processed_files' = processed_files
             /\ debouncing' =
                    [debouncing EXCEPT ![last'.path] = @ - 1]
             /\ UNCHANGED <<manager, lifecycle, marked, purchase_tasks>>
       ]_vars
    /\ [](ReadFailed /\ observer = "running" /\ InDebounce < MaxTasks
             => ENABLED on_file_event)

\* the read of a receipt file failed while a customer scan was waiting
\* and the control application was connected
C24_Witness ==
    /\ ReadFailed
    /\ last.path \in ReceiptPaths
    /\ observer = "running"
    /\ current_customer_scan # None
    /\ electron_connection # NoConn

(***************************************************************************)
(* C25.  parse_receipt is total: on every argument it returns a record     *)
(* that keeps the argument as its raw text and has a total of at least 0;  *)
(* when the extraction faults, the record has total 0 and an error.        *)
(***************************************************************************)
Parsed == "parse_receipt" \in called

C25_ExtractorTotal ==
    Parsed =>
        /\ DOMAIN parsed_data = DOMAIN parse_failed(NotStr)
        /\ parsed_data.raw_text = receipt_text
        /\ parsed_data.total >= 0
        /\ ~receipt_text.is_str =>
               /\ parsed_data.total = 0
               /\ parsed_data.error # ""

\* parse_receipt has returned from an argument its extractors fault on
C25_Witness ==
    /\ Parsed
    /\ ~receipt_text.is_str
    /\ parsed_data.error # ""

(***************************************************************************)
(* C26.  The reference receipt (Store ABC, Milk 3.50, Bread 2.00,          *)
(* SUBTOTAL 5.50, TAX 0.40, TOTAL: $5.90, Thank you, Receipt #R1001)       *)
(* parses to total 5.90, receipt id R1001, the items Milk 3.50 and Bread   *)
(* 2.00, an item count of 2, and is valid.                                 *)
(***************************************************************************)
C26_ReferenceScenario ==
    (Parsed /\ receipt_text = Str(ReferenceReceipt)) =>
        /\ parsed_data.total = 590
        /\ parsed_data.receipt_id = <<"R","1","0","0","1">>
        /\ Len(parsed_data.items) = 2
        /\ parsed_data.items[1].name = <<"M","i","l","k">>
        /\ parsed_data.items[1].price = 350
        /\ parsed_data.items[2].name = <<"B","r","e","a","d">>
        /\ parsed_data.items[2].price = 200
        /\ parsed_data.items_count = 2
        /\ is_valid(receipt_text)

(***************************************************************************)
(* C27.  Item extraction leaves summary lines out: no item's name holds    *)
(* total, subtotal, tax or change in any case of letters, no item comes    *)
(* from a line shorter than 5 characters, the items come from distinct     *)
(* lines in the order of the text, and items_count is their number.        *)
(***************************************************************************)
\* the items come one each from lines of the text, in order
OnePerLine(items, lines) ==
    \E f \in [1..Len(items) -> 1..Len(lines)] :
        /\ \A k \in 1..Len(items) : items[k].line = Strip(lines[f[k]])
        /\ \A k \in 1..(Len(items) - 1) : f[k] < f[k + 1]

C27_SummaryLinesExcluded ==
    (Parsed /\ receipt_text.is_str) =>
        /\ \A k \in 1..Len(parsed_data.items) :
              /\ \A keyword \in summary_keywords :
                     ~Contains(lower(parsed_data.items[k].name), keyword)
              /\ Len(parsed_data.items[k].line) >= 5
        /\ OnePerLine(parsed_data.items, Split(receipt_text.chars))
        /\ parsed_data.items_count = Len(parsed_data.items)

\* a text of two priced lines, one of them a subtotal, gave one item
C27_Witness ==
    /\ Parsed
    /\ receipt_text.is_str
    /\ Len(Split(receipt_text.chars)) = 2
    /\ Contains(lower(receipt_text.chars), <<"s","u","b","t","o","t","a","l">>)
    /\ Len(parsed_data.items) = 1

(***************************************************************************)
(* C28.  is_valid_receipt answers true exactly when the text without its   *)
(* leading and trailing white space has at least 20 characters, at least   *)
(* 2 of the 8 indicator words occur in it in any case of letters, and the  *)
(* extracted total is above 0; a text with one indicator word is invalid.  *)
(***************************************************************************)
Validated == "is_valid_receipt" \in called /\ receipt_text.is_str

C28_Validity ==
    Validated =>
        /\ receipt_valid <=>
               /\ StripLen(receipt_text.chars) >= 20
               /\ indicators_found(receipt_text.chars) >= 2
               /\ extract_total(receipt_text.chars) > 0
        /\ indicators_found(receipt_text.chars) = 1 => ~receipt_valid

\* a text of 20 characters or more, fewer without its trailing white
\* space, with two indicator words and a total, was found invalid
C28_Witness ==
    /\ Validated
    /\ Len(receipt_text.chars) >= 20
    /\ StripLen(receipt_text.chars) < 20
    /\ indicators_found(receipt_text.chars) >= 2
    /\ extract_total(receipt_text.chars) > 0
    /\ ~receipt_valid

\* C28 as first worded: the length is that of the text as it came
C28_ValidityRawLength ==
    Validated =>
        (receipt_valid <=>
            /\ Len(receipt_text.chars) >= 20
            /\ indicators_found(receipt_text.chars) >= 2
            /\ extract_total(receipt_text.chars) > 0)

(***************************************************************************)
(* C29.  The only error message a peer is ever sent is the show_error the  *)
(* form-submission handler sends to the tablet: a failed read, a receipt   *)
(* without a customer, and a send that raises put no error message on any  *)
(* connection.                                                             *)
(***************************************************************************)
C29_ErrorPolicy ==
    \A i \in 1..Len(last.sent) :
        last.sent[i].action = "show_error" =>
            /\ last.op = "submit_customer_form"
            /\ last.sent[i].to = "tablet"

\* a valid receipt found no customer within the window while the control
\* application was connected, and nothing was sent
C29_Witness ==
    /\ last.op = "process_file"
    /\ last.handed
    /\ ~last.matched
    /\ electron_connection # NoConn
    /\ last.sent = <<>>

(***************************************************************************)
(* C30.  The session state is idle at first and always one of idle,        *)
(* registration and confirmation; submitting the form while in             *)
(* registration enters confirmation, which lasts until the automatic       *)
(* return to idle.                                                         *)
(***************************************************************************)
C30_SessionCycle ==
    /\ [](tablet_state \in {"idle", "registration", "confirmation"})
    /\ [][(/\ tablet_state = "registration"
           /\ last'.op = "submit_customer_form"
           /\ \E i \in 1..Len(last'.sent) :
                  /\ last'.sent[i].action = "show_confirmation"
                  /\ last'.sent[i].ok)
             => tablet_state' = "confirmation"
       ]_vars

(***************************************************************************)
(* C31.  Right after every housekeeping pass the processed-set holds at    *)
(* most the capacity threshold of paths, and a pass that finds the set at  *)
(* or below the threshold removes nothing.                                 *)
(***************************************************************************)
\* the loop of _process_pending_receipts has made a turn and sleeps
HousekeepingPass ==
    /\ last.op = "housekeeping"
    /\ \E k \in DOMAIN housekeeping : housekeeping[k] = "sleep"

C31_ProcessedBound ==
    [][HousekeepingPass' =>
          /\ Cardinality(processed_files') <= TrimAbove
          /\ Cardinality(processed_files) <= TrimAbove
                 => processed_files' = processed_files
      ]_vars

\* a pass has left a processed-set that is not empty
C31_Witness ==
    /\ HousekeepingPass
    /\ Cardinality(processed_files) = TrimKeep
    /\ observer = "running"

(***************************************************************************)
(* C32.  A file whose content is empty or white space under every          *)
(* decoding is not handed to the extractor and its path is not added to    *)
(* the processed-set, so that a later modification event for the path      *)
(* starts a run that reads the file again.                                 *)
(***************************************************************************)
ReadBlank == last.op = "process_file" /\ last_read \in BlankIds

C32_BlankContent ==
    /\ [][ReadBlank' =>
             /\ ~last'.read
             /\ ~last'.extracted
             /\ ~last'.handed
             /\ processed_files' = processed_files
       ]_vars
    /\ [](\A p \in ReceiptPaths :
             (/\ ReadBlank
              /\ last.path = p
              /\ p \notin processed_files
              /\ observer = "running"
              /\ InDebounce < MaxTasks)
                 => ENABLED (/\ process_modified_file(p)
                             /\ debouncing'[p] = debouncing[p] + 1
                             /\ UNCHANGED <<lifecycle, history, parser,
                                            scoring>>))

\* the run for a receipt file found white space only and the path is not
\* in the processed-set
C32_Witness ==
    /\ ReadBlank
    /\ last.path \in ReceiptPaths
    /\ last.path \notin processed_files
    /\ observer = "running"

(***************************************************************************)
(* C33.  The points of a purchase are floor(dollars * rate) plus the one   *)
(* bonus of the highest tier reached (50 from $500, 25 from $250, 10 from  *)
(* $100, else 0); they are never negative and never fall as the amount     *)
(* grows.                                                                  *)
(***************************************************************************)
Scored == points_awarded # NotCalculated

\* the bonus by the amount in cents
TierBonus(cents) ==
    IF cents >= 50000 THEN 50
    ELSE IF cents >= 25000 THEN 25
    ELSE IF cents >= 10000 THEN 10
    ELSE 0

C33_Scoring ==
    Scored =>
        /\ points_awarded =
               (amount_cents * points_per_dollar) \div 100
                   + TierBonus(amount_cents)
        /\ points_awarded >= 0
        /\ \A less \in Amounts :
               less <= amount_cents =>
                   calculate_points(less, points_per_dollar)
                       <= points_awarded

(***************************************************************************)
(* C34.  A slot always refers to the peer that connected last: when a      *)
(* second peer has replaced the first in a slot, the later disconnect of   *)
(* the first leaves the second in the slot and the session state as it is. *)
(***************************************************************************)
\* this step is the `except WebSocketDisconnect` branch of the tablet
\* endpoint serving websocket c
TabletDisconnects(c) ==
    tablet_loop[c] = "recv" /\ tablet_loop'[c] = "closed"

\* this step is the `except WebSocketDisconnect` branch of the control
\* endpoint serving websocket c
ElectronDisconnects(c) ==
    electron_loop[c] = "recv" /\ electron_loop'[c] = "closed"

\* another websocket has taken the slot since c connected
Replaced(slot, c) == slot # NoConn /\ slot # c

C34_MostRecentPeer ==
    [][/\ \A c \in AllTabletConns :
              TabletDisconnects(c) /\ Replaced(tablet_connection, c) =>
                  /\ tablet_connection' = tablet_connection
                  /\ tablet_state' = tablet_state
       /\ \A c \in AllElectronConns :
              ElectronDisconnects(c) /\ Replaced(electron_connection, c) =>
                  /\ electron_connection' = electron_connection
                  /\ tablet_state' = tablet_state]_vars

(***************************************************************************)
(* C35.  The completion of an earlier match never discards a newer scan:   *)
(* when the purchase of scan A has been sent and scan B is recorded before *)
(* the receipt_processed for A is handled, B is still in the slot after    *)
(* that message has been handled.                                          *)
(***************************************************************************)
\* a purchase is waiting for its receipt_processed and the slot holds a
\* scan recorded since that purchase was sent
NewerScan ==
    /\ awaiting # None
    /\ current_customer_scan # None
    /\ current_customer_scan # awaiting

C35_NewerScanKept ==
    [][NewerScan /\ last'.op = "receipt_processed" =>
           current_customer_scan' = current_customer_scan]_vars

(***************************************************************************)
(* C36.  A scan recorded during the confirmation delay that follows a      *)
(* form submission is still in the slot after the automatic reset to idle  *)
(* that ends the delay.                                                    *)
(***************************************************************************)
\* this step is the tail of _handle_customer_registration on websocket c:
\* asyncio.sleep(5) is over and _reset_to_idle runs
AutoResets(c) == tablet_loop[c] = "sleep" /\ tablet_loop'[c] = "recv"

\* the handler on websocket c is in asyncio.sleep(5) and the last thing
\* that happened is the step op
DuringDelay(c, op) == tablet_loop[c] = "sleep" /\ last.op = op

C36_ScanSurvivesAutoReset ==
    [][\A c \in AllTabletConns :
           DuringDelay(c, "customer_scanned") /\ AutoResets(c) =>
               current_customer_scan' = current_customer_scan]_vars

(***************************************************************************)
(* C37.  When the control application starts a registration during the     *)
(* confirmation delay of an earlier submission, the automatic reset of the *)
(* earlier submission does not move the new registration to idle.          *)
(***************************************************************************)
C37_ResetSparesNewRegistration ==
    [][\A c \in AllTabletConns :
           DuringDelay(c, "start_registration") /\ AutoResets(c) =>
               tablet_state' = "registration"]_vars

(***************************************************************************)
(* C38.  At most one housekeeping loop runs, whatever the sequence of      *)
(* calls of start_monitoring and stop_monitoring: a stop followed by a     *)
(* start within one sleep of the loop, and two starts without a stop,      *)
(* included.                                                               *)
(***************************************************************************)
\* the tasks of _process_pending_receipts that are inside the loop,
\* suspended in its sleep
InLoop == {k \in DOMAIN housekeeping : housekeeping[k] = "sleep"}

C38_OneLoop == Cardinality(InLoop) <= 1

(***************************************************************************)
(* C39.  Whenever connect_tablet has sent set_state idle to a new peer,    *)
(* the session state is idle.                                              *)
(***************************************************************************)
\* connect_tablet has just run and its set_state message went out
ConnectedTablet ==
    last.op = "connect_tablet" /\ SentTo("tablet", "set_state") # {}

C39_IdleOnConnect == ConnectedTablet => tablet_state = "idle"

(***************************************************************************)
(* C40.  disconnect_tablet sets the session state to idle and empties the  *)
(* tablet slot only: the pending scan and the control slot stay.           *)
(* disconnect_electron empties the control slot only: the session state,   *)
(* the pending scan and the tablet slot stay.                              *)
(***************************************************************************)
C40_DisconnectFrame ==
    [][/\ \A c \in AllTabletConns :
              TabletDisconnects(c) =>
                  /\ tablet_state' = "idle"
                  /\ tablet_connection' = NoConn
                  /\ UNCHANGED <<current_customer_scan, electron_connection>>
       /\ \A c \in AllElectronConns :
              ElectronDisconnects(c) =>
                  /\ electron_connection' = NoConn
                  /\ UNCHANGED <<tablet_state, current_customer_scan,
                                 tablet_connection>>]_vars

\* the control application has just disconnected during a registration with
\* a scan pending and a tablet connected
C40_Witness ==
    /\ last.op = "disconnect_electron"
    /\ electron_connection = NoConn
    /\ tablet_state = "registration"
    /\ current_customer_scan # None
    /\ tablet_connection # NoConn

=============================================================================
